---- MODULE Spec2Model ----
(***************************************************************************)
(* Model of src/index.js: the ArbitrageBot paper-trading state machine.    *)
(*                                                                         *)
(* JavaScript numbers are modelled as exact rationals n/d extended with    *)
(* NaN and +/-Infinity; null and undefined are kept as separate values     *)
(* because they coerce differently (null -> 0, undefined -> NaN).          *)
(* Rounding of IEEE-754 doubles is not modelled.                           *)
(***************************************************************************)
EXTENDS Integers, Sequences, FiniteSets, TLC

VARIABLES spotPrice, futuresPrice, fundingRate, currentPosition,
          paperPortfolio, config, pc, opens, closes, lastDecision,
          preOpen, report, loadedInitialBalance

vars == <<spotPrice, futuresPrice, fundingRate, currentPosition,
          paperPortfolio, config, pc, opens, closes, lastDecision,
          preOpen, report, loadedInitialBalance>>

(* ---------------------------------------------------------------------- *)
(* JavaScript values                                                       *)
(* ---------------------------------------------------------------------- *)
Abs(i) == IF i < 0 THEN -i ELSE i

Sign(i) == IF i < 0 THEN -1 ELSE IF i > 0 THEN 1 ELSE 0

RECURSIVE GCD(_, _)
GCD(a, b) == IF b = 0 THEN a ELSE GCD(b, a % b)

\* the rational n/d in lowest terms with a positive denominator (d # 0)
Num(n, d) ==
    LET g == GCD(Abs(n), Abs(d))
        s == IF d < 0 THEN -1 ELSE 1
    IN  [k |-> "num", n |-> (s * n) \div g, d |-> Abs(d) \div g]

Int2(i) == Num(i, 1)

\* least common multiple of two positive denominators
LCM(a, b) == (a \div GCD(a, b)) * b

NaN == [k |-> "nan", n |-> 0, d |-> 1]

Null == [k |-> "null", n |-> 0, d |-> 1]

Undefined == [k |-> "undef", n |-> 0, d |-> 1]

\* +Infinity (s = 1) or -Infinity (s = -1)
Inf(s) == [k |-> "inf", n |-> s, d |-> 1]

\* ToNumber: null -> 0, undefined -> NaN
ToNumber(v) ==
    CASE v.k = "null"  -> Int2(0)
      [] v.k = "undef" -> NaN
      [] OTHER         -> v

\* ToBoolean: null, undefined, NaN and 0 are falsy
Truthy(v) ==
    CASE v.k = "null"  -> FALSE
      [] v.k = "undef" -> FALSE
      [] v.k = "nan"   -> FALSE
      [] v.k = "inf"   -> TRUE
      [] OTHER         -> v.n # 0

IsFinite(v) == v.k = "num"

AddN(a, b) ==
    CASE a.k = "nan" \/ b.k = "nan"   -> NaN
      [] a.k = "inf" /\ b.k = "inf"   -> IF a.n = b.n THEN a ELSE NaN
      [] a.k = "inf"                  -> a
      [] b.k = "inf"                  -> b
      [] OTHER ->
            LET l == LCM(a.d, b.d)
            IN  Num(a.n * (l \div a.d) + b.n * (l \div b.d), l)

NegN(a) ==
    CASE a.k = "nan" -> NaN
      [] a.k = "inf" -> Inf(-a.n)
      [] OTHER       -> Num(-a.n, a.d)

MulN(a, b) ==
    CASE a.k = "nan" \/ b.k = "nan" -> NaN
      [] a.k = "inf" \/ b.k = "inf" ->
            IF Sign(a.n) * Sign(b.n) = 0 THEN NaN
            ELSE Inf(Sign(a.n) * Sign(b.n))
      [] OTHER ->
            LET g1 == GCD(Abs(a.n), b.d)
                g2 == GCD(Abs(b.n), a.d)
            IN  IF a.n = 0 \/ b.n = 0 THEN Int2(0)
                ELSE Num((a.n \div g1) * (b.n \div g2),
                         (a.d \div g2) * (b.d \div g1))

DivN(a, b) ==
    CASE a.k = "nan" \/ b.k = "nan" -> NaN
      [] a.k = "inf" -> IF b.k = "inf" THEN NaN
                        ELSE Inf(a.n * (IF b.n < 0 THEN -1 ELSE 1))
      [] b.k = "inf" -> Int2(0)
      [] b.n = 0     -> IF a.n = 0 THEN NaN ELSE Inf(Sign(a.n))
      [] OTHER       -> MulN(a, Num(b.d, b.n))

\* the binary operators of the language, applied after ToNumber
Add(a, b) == AddN(ToNumber(a), ToNumber(b))

Sub(a, b) == AddN(ToNumber(a), NegN(ToNumber(b)))

Mul(a, b) == MulN(ToNumber(a), ToNumber(b))

Div(a, b) == DivN(ToNumber(a), ToNumber(b))

LtN(a, b) ==
    CASE a.k = "nan" \/ b.k = "nan" -> FALSE
      [] a.k = "inf" -> a.n = -1 /\ ~(b.k = "inf" /\ b.n = -1)
      [] b.k = "inf" -> b.n = 1
      [] OTHER       -> a.n * (LCM(a.d, b.d) \div a.d)
                            < b.n * (LCM(a.d, b.d) \div b.d)

\* a < b and a > b; any comparison with NaN is false
Lt(a, b) == LtN(ToNumber(a), ToNumber(b))

Gt(a, b) == LtN(ToNumber(b), ToNumber(a))

(* ---------------------------------------------------------------------- *)
(* Bounds and input domains                                                *)
(* ---------------------------------------------------------------------- *)
\* opens executed in one behaviour (balances grow without bound otherwise)
MaxOpens == 1

Ticker(b, a) == [bid |-> b, ask |-> a]

\* well-formed tickers a fetchTicker may deliver
SpotTickers == {Ticker(Int2(100), Int2(100)), Ticker(Int2(99), Int2(100))}

FuturesTickers ==
    {Ticker(Int2(102), Int2(102)), Ticker(Int2(101), Int2(102)),
     Ticker(Int2(100), Int2(102)), Ticker(Int2(99), Int2(102)),
     Ticker(Int2(99), Int2(100))}

\* tickers with a missing, zero or negative field: no price validation is
\* done between fetchTicker and the store
OddSnapshots ==
    {<<Ticker(Int2(100), Undefined),   Ticker(Int2(102), Int2(102))>>,
     <<Ticker(Int2(100), Int2(0)),     Ticker(Int2(102), Int2(102))>>,
     <<Ticker(Int2(100), Int2(100)),   Ticker(Null, Int2(102))>>,
     <<Ticker(Int2(100), Int2(100)),   Ticker(Int2(0), Int2(102))>>,
     <<Ticker(Undefined, Int2(100)),   Ticker(Int2(99), Int2(102))>>,
     <<Ticker(Int2(100), Int2(100)),   Ticker(Int2(99), Undefined)>>,
     <<Ticker(Int2(-100), Int2(-100)), Ticker(Int2(-200), Int2(-200))>>}

\* the pairs <<spotTicker, futuresTicker>> one poll may deliver
Snapshots == (SpotTickers \X FuturesTickers) \cup OddSnapshots

\* fundingRateData.fundingRate as a fraction; Undefined when the field is
\* missing from the exchange's answer
FundingRateData == {Undefined, Num(1, 10000), Num(5, 10000)}

\* config.fees of config.json
FeeConfigs == {[spotTaker |-> Num(1, 1000), futuresTaker |-> Num(1, 500)],
               [spotTaker |-> Num(1, 100),  futuresTaker |-> Num(1, 50)]}

\* config.paperTrading.initialBalance of config.json; the base-currency
\* entry may be absent
InitialBalances == {[USDT |-> Int2(1000), BTC |-> Undefined],
                    [USDT |-> Int2(1000), BTC |-> Int2(2)]}

\* config.arbitrage and config.paperTrading.tradeAmountUSDT of config.json
OpenThresholdPercent == 1

CloseThresholdPercent == 0

FundingRateThresholdPercent == Num(1, 100)

TradeAmountUSDT == 50

Configs ==
    { [fees |-> f,
       openThresholdPercent |-> Int2(OpenThresholdPercent),
       closeThresholdPercent |-> Int2(CloseThresholdPercent),
       fundingRateThresholdPercent |-> FundingRateThresholdPercent,
       tradeAmountUSDT |-> Int2(TradeAmountUSDT)] : f \in FeeConfigs }

(* ---------------------------------------------------------------------- *)
(* checkArbitrageOpportunity                                               *)
(* ---------------------------------------------------------------------- *)
NullPosition ==
    [exists |-> FALSE, amount |-> Null, entrySpotPrice |-> Null,
     entryFuturesPrice |-> Null, initialBasisPercent |-> Null]

NoReport ==
    [emitted |-> FALSE, netPnL |-> Null, spotPnL |-> Null,
     futuresPnL |-> Null, totalFees |-> Null]

\* the early return without the test of the futures bid
MissingDataNoBid(sp, fp, fr) ==
    ~Truthy(sp.ask) \/ fr.k = "null"

\* line 124: the early return
MissingData(sp, fp, fr) ==
    ~Truthy(sp.ask) \/ ~Truthy(fp.bid) \/ fr.k = "null"

\* lines 128-129
BasisPercent(sp, fp) ==
    Mul(Div(Sub(fp.bid, sp.ask), sp.ask), Int2(100))

\* line 132: computed and never used
OpenFeePercent(cfg) ==
    Mul(Add(cfg.fees.spotTaker, cfg.fees.futuresTaker), Int2(100))

\* the open test with >= in place of > on the basis
OpenConditionGe(sp, fp, fr, cfg) ==
    /\ ~Lt(BasisPercent(sp, fp), cfg.openThresholdPercent)
    /\ Gt(fr, cfg.fundingRateThresholdPercent)

\* line 133
OpenCondition(sp, fp, fr, cfg) ==
    /\ Gt(BasisPercent(sp, fp), cfg.openThresholdPercent)
    /\ Gt(fr, cfg.fundingRateThresholdPercent)

\* the close test with the comparison inverted
CloseConditionGt(sp, fp, cfg) ==
    Gt(BasisPercent(sp, fp), cfg.closeThresholdPercent)

\* the close test with <= in place of <
CloseConditionLe(sp, fp, cfg) ==
    ~Gt(BasisPercent(sp, fp), cfg.closeThresholdPercent)

\* line 137
CloseCondition(sp, fp, cfg) ==
    Lt(BasisPercent(sp, fp), cfg.closeThresholdPercent)

\* the decision without the test of currentPosition
DecisionNoPositionTest(sp, fp, fr, pos, cfg) ==
    IF MissingData(sp, fp, fr) THEN "NoAction"
    ELSE IF OpenCondition(sp, fp, fr, cfg) THEN "Open"
    ELSE IF CloseCondition(sp, fp, cfg) THEN "Close" ELSE "NoAction"

\* lines 124-140: which of simulateOpenPosition / simulateClosePosition
\* the call runs
Decision(sp, fp, fr, pos, cfg) ==
    IF MissingData(sp, fp, fr) THEN "NoAction"
    ELSE IF ~pos.exists
         THEN IF OpenCondition(sp, fp, fr, cfg) THEN "Open" ELSE "NoAction"
         ELSE IF CloseCondition(sp, fp, cfg) THEN "Close" ELSE "NoAction"

(* ---------------------------------------------------------------------- *)
(* simulateOpenPosition                                                    *)
(* ---------------------------------------------------------------------- *)
\* line 150
OpenAmount(sp, cfg) == Div(cfg.tradeAmountUSDT, sp.ask)

\* line 151
OpenSpotFee(cfg) == Mul(cfg.tradeAmountUSDT, cfg.fees.spotTaker)

\* the futures entry fee charged at the spot taker rate
OpenFuturesFeeSpotRate(sp, fp, cfg) ==
    Mul(Mul(OpenAmount(sp, cfg), fp.bid), cfg.fees.spotTaker)

\* line 152
OpenFuturesFee(sp, fp, cfg) ==
    Mul(Mul(OpenAmount(sp, cfg), fp.bid), cfg.fees.futuresTaker)

\* lines 155-157
OpenPortfolio(pf, sp, fp, cfg) ==
    LET usdt == Sub(pf.USDT,
                    Add(Add(cfg.tradeAmountUSDT, OpenSpotFee(cfg)),
                        OpenFuturesFee(sp, fp, cfg)))
        base == IF ~Truthy(pf.BTC) THEN Int2(0) ELSE pf.BTC
    IN  [USDT |-> usdt, BTC |-> Add(base, OpenAmount(sp, cfg))]

\* lines 159-165 (entryTimestamp, the wall clock, is left out)
OpenPosition(sp, fp, cfg) ==
    [exists |-> TRUE,
     amount |-> OpenAmount(sp, cfg),
     entrySpotPrice |-> sp.ask,
     entryFuturesPrice |-> fp.bid,
     initialBasisPercent |-> BasisPercent(sp, fp)]

(* ---------------------------------------------------------------------- *)
(* simulateClosePosition                                                   *)
(* ---------------------------------------------------------------------- *)
\* line 181
SpotSellValue(pos, sp) == Mul(pos.amount, sp.bid)

\* line 182
CloseSpotFee(pos, sp, cfg) == Mul(SpotSellValue(pos, sp), cfg.fees.spotTaker)

\* the futures exit fee computed on the entry price
CloseFuturesFeeAtEntry(pos, fp, cfg) ==
    Mul(Mul(pos.amount, pos.entryFuturesPrice), cfg.fees.futuresTaker)

\* line 183
CloseFuturesFee(pos, fp, cfg) ==
    Mul(Mul(pos.amount, fp.ask), cfg.fees.futuresTaker)

\* line 185
SpotPnL(pos, sp) == Mul(Sub(sp.bid, pos.entrySpotPrice), pos.amount)

\* line 186
FuturesPnL(pos, fp) == Mul(Sub(pos.entryFuturesPrice, fp.ask), pos.amount)

\* the total without the two entry fees
TotalFeesExitOnly(pos, sp, fp, cfg) ==
    Add(Mul(SpotSellValue(pos, sp), cfg.fees.spotTaker),
        Mul(Mul(pos.amount, fp.ask), cfg.fees.futuresTaker))

\* lines 187-190
TotalFees(pos, sp, fp, cfg) ==
    Add(Add(Add(Mul(SpotSellValue(pos, sp), cfg.fees.spotTaker),
                Mul(Mul(pos.amount, fp.ask), cfg.fees.futuresTaker)),
            Mul(Mul(pos.amount, pos.entrySpotPrice), cfg.fees.spotTaker)),
        Mul(Mul(pos.amount, pos.entryFuturesPrice), cfg.fees.futuresTaker))

\* line 192
NetPnL(pos, sp, fp, cfg) ==
    Sub(Add(SpotPnL(pos, sp), FuturesPnL(pos, fp)),
        TotalFees(pos, sp, fp, cfg))

\* lines 194-195
ClosePortfolio(pf, pos, sp, fp, cfg) ==
    [USDT |-> Add(pf.USDT,
                  Sub(Sub(SpotSellValue(pos, sp), CloseSpotFee(pos, sp, cfg)),
                      CloseFuturesFee(pos, fp, cfg))),
     BTC  |-> Sub(pf.BTC, pos.amount)]

\* line 199: the profit-and-loss report that is logged
CloseReport(pos, sp, fp, cfg) ==
    [emitted |-> TRUE,
     netPnL |-> NetPnL(pos, sp, fp, cfg),
     spotPnL |-> SpotPnL(pos, sp),
     futuresPnL |-> FuturesPnL(pos, fp),
     totalFees |-> TotalFees(pos, sp, fp, cfg)]

(* ---------------------------------------------------------------------- *)
(* State machine                                                           *)
(* ---------------------------------------------------------------------- *)
\* line 41 assigns the object itself, not a copy: paperPortfolio and
\* config.paperTrading.initialBalance are one object
ConfigInitialBalance == paperPortfolio

\* the constructor, lines 37-41; loadedInitialBalance keeps the initial
\* balances as parsed from config.json (lines 11-12)
Init ==
    /\ spotPrice = [bid |-> Null, ask |-> Null]
    /\ futuresPrice = [bid |-> Null, ask |-> Null]
    /\ fundingRate = Null
    /\ currentPosition = NullPosition
    /\ config \in Configs
    /\ paperPortfolio \in InitialBalances
    /\ pc = [main |-> "loadMarkets", poll |-> "idle", fund |-> "idle"]
    /\ opens = 0
    /\ closes = 0
    /\ lastDecision = "None"
    /\ preOpen = paperPortfolio
    /\ report = NoReport
    /\ loadedInitialBalance = paperPortfolio

\* start(), lines 49-63: the markets load, then both loops run up to their
\* first await
LoadMarketsOk ==
    /\ pc.main = "loadMarkets"
    /\ pc' = [main |-> "running", poll |-> "fetch", fund |-> "fetch"]
    /\ UNCHANGED <<spotPrice, futuresPrice, fundingRate, currentPosition,
                   paperPortfolio, config,
                   loadedInitialBalance, opens, closes, lastDecision,
                   preOpen, report>>

\* start(), lines 57-60: process.exit(1)
LoadMarketsFail ==
    /\ pc.main = "loadMarkets"
    /\ pc' = [pc EXCEPT !.main = "exited"]
    /\ UNCHANGED <<spotPrice, futuresPrice, fundingRate, currentPosition,
                   paperPortfolio, config,
                   loadedInitialBalance, opens, closes, lastDecision,
                   preOpen, report>>

\* the refresh running checkArbitrageOpportunity after its write
FundingRateOkEvaluates(data) ==
    LET fr == Mul(data, Int2(100))
        d == Decision(spotPrice, futuresPrice, fr, currentPosition, config)
    IN  /\ pc.main = "running" /\ pc.fund = "fetch"
        /\ d = "Open" => opens < MaxOpens
        /\ fundingRate' = fr
        /\ pc' = [pc EXCEPT !.fund = "timer"]
        /\ CASE d = "Open" ->
                  /\ paperPortfolio' = OpenPortfolio(paperPortfolio,
                                          spotPrice, futuresPrice, config)
                  /\ currentPosition' = OpenPosition(spotPrice,
                                          futuresPrice, config)
                  /\ preOpen' = paperPortfolio
                  /\ opens' = opens + 1
                  /\ UNCHANGED closes
             [] d = "Close" /\ currentPosition.exists ->
                  /\ paperPortfolio' = ClosePortfolio(paperPortfolio,
                                          currentPosition, spotPrice,
                                          futuresPrice, config)
                  /\ currentPosition' = NullPosition
                  /\ closes' = closes + 1
                  /\ UNCHANGED <<opens, preOpen>>
             [] OTHER ->
                  UNCHANGED <<currentPosition, paperPortfolio, opens,
                              closes, preOpen>>
        /\ UNCHANGED <<spotPrice, futuresPrice, config,
                       loadedInitialBalance, lastDecision,
                       report>>

\* fetchFundingRatePeriodically, lines 70-72 and 76
FundingRateOk(data) ==
    /\ pc.main = "running" /\ pc.fund = "fetch"
    /\ fundingRate' = Mul(data, Int2(100))
    /\ pc' = [pc EXCEPT !.fund = "timer"]
    /\ UNCHANGED <<spotPrice, futuresPrice, currentPosition, paperPortfolio,
                   config,
                   loadedInitialBalance, opens, closes, lastDecision,
                   preOpen, report>>

\* the catch branch resetting the funding rate to null
FundingRateFailResets ==
    /\ pc.main = "running" /\ pc.fund = "fetch"
    /\ pc' = [pc EXCEPT !.fund = "timer"]
    /\ fundingRate' = Null
    /\ UNCHANGED <<spotPrice, futuresPrice, currentPosition, paperPortfolio,
                   config,
                   loadedInitialBalance, opens, closes, lastDecision,
                   preOpen, report>>

\* fetchFundingRatePeriodically, lines 73-76
FundingRateFail ==
    /\ pc.main = "running" /\ pc.fund = "fetch"
    /\ pc' = [pc EXCEPT !.fund = "timer"]
    /\ UNCHANGED <<spotPrice, futuresPrice, fundingRate, currentPosition,
                   paperPortfolio, config,
                   loadedInitialBalance, opens, closes, lastDecision,
                   preOpen, report>>

\* line 76: the hourly timer fires
FundingRateTimer ==
    /\ pc.main = "running" /\ pc.fund = "timer"
    /\ pc' = [pc EXCEPT !.fund = "fetch"]
    /\ UNCHANGED <<spotPrice, futuresPrice, fundingRate, currentPosition,
                   paperPortfolio, config,
                   loadedInitialBalance, opens, closes, lastDecision,
                   preOpen, report>>

\* the continuation writing the spot ticker only and evaluating on a store
\* whose futures quote is from an earlier poll
PollOkSpotOnly(spotTicker, futuresTicker) ==
    LET d == Decision(spotTicker, futuresPrice, fundingRate,
                      currentPosition, config)
    IN  /\ pc.main = "running" /\ pc.poll = "fetch"
        /\ d = "Open" => opens < MaxOpens
        /\ spotPrice' = spotTicker
        /\ futuresPrice' = futuresPrice
        /\ lastDecision' = d
        /\ pc' = [pc EXCEPT !.poll = "sleep"]
        /\ CASE d = "Open" ->
                  /\ paperPortfolio' = OpenPortfolio(paperPortfolio,
                                          spotTicker, futuresPrice, config)
                  /\ currentPosition' = OpenPosition(spotTicker,
                                          futuresPrice, config)
                  /\ preOpen' = paperPortfolio
                  /\ opens' = opens + 1
                  /\ report' = NoReport
                  /\ UNCHANGED closes
             [] d = "Close" /\ ~currentPosition.exists ->
                  \* line 176 reads position.amount of null: the TypeError
                  \* is caught at line 112
                  /\ report' = NoReport
                  /\ UNCHANGED <<currentPosition, paperPortfolio, opens,
                                 closes, preOpen>>
             [] d = "Close" /\ currentPosition.exists ->
                  /\ paperPortfolio' = ClosePortfolio(paperPortfolio,
                                          currentPosition, spotTicker,
                                          futuresPrice, config)
                  /\ report' = CloseReport(currentPosition, spotTicker,
                                          futuresPrice, config)
                  /\ currentPosition' = NullPosition
                  /\ closes' = closes + 1
                  /\ UNCHANGED <<opens, preOpen>>
             [] OTHER ->
                  /\ report' = NoReport
                  /\ UNCHANGED <<currentPosition, paperPortfolio, opens,
                                 closes, preOpen>>
        /\ UNCHANGED <<fundingRate, config, loadedInitialBalance>>

\* pollPrices, lines 88-110 and 115: both tickers arrive, the store is
\* written and checkArbitrageOpportunity runs, all without an await
PollOk(spotTicker, futuresTicker) ==
    LET d == Decision(spotTicker, futuresTicker, fundingRate,
                      currentPosition, config)
    IN  /\ pc.main = "running" /\ pc.poll = "fetch"
        /\ d = "Open" => opens < MaxOpens
        /\ spotPrice' = spotTicker
        /\ futuresPrice' = futuresTicker
        /\ lastDecision' = d
        /\ pc' = [pc EXCEPT !.poll = "sleep"]
        /\ CASE d = "Open" ->
                  /\ paperPortfolio' = OpenPortfolio(paperPortfolio,
                                          spotTicker, futuresTicker, config)
                  /\ currentPosition' = OpenPosition(spotTicker,
                                          futuresTicker, config)
                  /\ preOpen' = paperPortfolio
                  /\ opens' = opens + 1
                  /\ report' = NoReport
                  /\ UNCHANGED closes
             [] d = "Close" /\ ~currentPosition.exists ->
                  \* line 176 reads position.amount of null: the TypeError
                  \* is caught at line 112
                  /\ report' = NoReport
                  /\ UNCHANGED <<currentPosition, paperPortfolio, opens,
                                 closes, preOpen>>
             [] d = "Close" /\ currentPosition.exists ->
                  /\ paperPortfolio' = ClosePortfolio(paperPortfolio,
                                          currentPosition, spotTicker,
                                          futuresTicker, config)
                  /\ report' = CloseReport(currentPosition, spotTicker,
                                          futuresTicker, config)
                  /\ currentPosition' = NullPosition
                  /\ closes' = closes + 1
                  /\ UNCHANGED <<opens, preOpen>>
             [] OTHER ->
                  /\ report' = NoReport
                  /\ UNCHANGED <<currentPosition, paperPortfolio, opens,
                                 closes, preOpen>>
        /\ UNCHANGED <<fundingRate, config, loadedInitialBalance>>

\* pollPrices, lines 93-97: a ticker is missing
PollIncomplete ==
    /\ pc.main = "running" /\ pc.poll = "fetch"
    /\ pc' = [pc EXCEPT !.poll = "sleep"]
    /\ lastDecision' = "None"
    /\ report' = NoReport
    /\ UNCHANGED <<spotPrice, futuresPrice, fundingRate, currentPosition,
                   paperPortfolio, config,
                   loadedInitialBalance, opens, closes, preOpen>>

\* the catch branch dropping the open Position as well
PollFailClearsPosition ==
    /\ pc.main = "running" /\ pc.poll = "fetch"
    /\ pc' = [pc EXCEPT !.poll = "sleep"]
    /\ lastDecision' = "None"
    /\ report' = NoReport
    /\ currentPosition' = NullPosition
    /\ UNCHANGED <<spotPrice, futuresPrice, fundingRate, paperPortfolio,
                   config, loadedInitialBalance, opens, closes, preOpen>>

\* the rejection escaping the loop: no further poll is scheduled
PollFailStopsLoop ==
    /\ pc.main = "running" /\ pc.poll = "fetch"
    /\ pc' = [pc EXCEPT !.poll = "stopped"]
    /\ lastDecision' = "None"
    /\ report' = NoReport
    /\ UNCHANGED <<spotPrice, futuresPrice, fundingRate, currentPosition,
                   paperPortfolio, config,
                   loadedInitialBalance, opens, closes, preOpen>>

\* pollPrices, lines 112-115: a fetchTicker rejects
PollFail ==
    /\ pc.main = "running" /\ pc.poll = "fetch"
    /\ pc' = [pc EXCEPT !.poll = "sleep"]
    /\ lastDecision' = "None"
    /\ report' = NoReport
    /\ UNCHANGED <<spotPrice, futuresPrice, fundingRate, currentPosition,
                   paperPortfolio, config,
                   loadedInitialBalance, opens, closes, preOpen>>

\* pollPrices, lines 95 and 115: the polling interval elapses
PollWake ==
    /\ pc.main = "running" /\ pc.poll = "sleep"
    /\ pc' = [pc EXCEPT !.poll = "fetch"]
    /\ UNCHANGED <<spotPrice, futuresPrice, fundingRate, currentPosition,
                   paperPortfolio, config,
                   loadedInitialBalance, opens, closes, lastDecision,
                   preOpen, report>>

Next ==
    \/ LoadMarketsOk
    \/ LoadMarketsFail
    \/ \E data \in FundingRateData : FundingRateOk(data)
    \/ FundingRateFail
    \/ FundingRateTimer
    \/ \E t \in Snapshots : PollOk(t[1], t[2])
    \/ PollIncomplete
    \/ PollFail
    \/ PollWake

Spec == Init /\ [][Next]_vars

\* simulateClosePosition called from the poll's continuation while
\* currentPosition is null (checkArbitrageOpportunity itself never does
\* this): line 176 reads position.amount of null, the TypeError is thrown
\* before any balance is touched, is caught at line 112 and logged as a
\* failed poll, and the loop goes on at line 115
CloseWhileFlat(spotTicker, futuresTicker) ==
    /\ pc.main = "running" /\ pc.poll = "fetch"
    /\ ~currentPosition.exists
    /\ spotPrice' = spotTicker
    /\ futuresPrice' = futuresTicker
    /\ lastDecision' = "Close"
    /\ report' = NoReport
    /\ pc' = [pc EXCEPT !.poll = "sleep"]
    /\ UNCHANGED <<fundingRate, currentPosition, paperPortfolio, config,
                   loadedInitialBalance,
                   opens, closes, preOpen>>

LedgerNext ==
    \/ Next
    \/ \E t \in Snapshots : CloseWhileFlat(t[1], t[2])

\* the program with the ledger manager also asked to close while Flat
LedgerSpec == Init /\ [][LedgerNext]_vars

\* a pending fetch of the two tickers does not hang: both exchanges are
\* built with a 20 s timeout (lines 26 and 31), which rejects the await of
\* line 88 at the latest; a pending fetch of the funding rate likewise
\* (line 70); armed timers fire (lines 76, 95 and 115)
LiveSpec ==
    /\ Spec
    /\ WF_vars(PollFail)
    /\ WF_vars(PollWake)
    /\ WF_vars(FundingRateFail)
    /\ WF_vars(FundingRateTimer)

(* ---------------------------------------------------------------------- *)
(* Vocabulary of the properties                                            *)
(* ---------------------------------------------------------------------- *)
\* a step of the polling loop that leaves its await of the two tickers
PollStep == pc.poll = "fetch" /\ pc'.poll = "sleep"

\* a poll step that ran checkArbitrageOpportunity
Evaluated == PollStep /\ lastDecision' # "None"

\* the state right after a poll that ran checkArbitrageOpportunity
JustEvaluated == pc.poll = "sleep" /\ lastDecision # "None"

\* never delivered, or delivered without a value
Unknown(v) == v.k \in {"null", "undef"}

Positioned == currentPosition.exists

Flat == ~currentPosition.exists

\* C1: the Position changes only Flat->Positioned by an open run from Flat
\* and Positioned->Flat by a close run from Positioned; opens and closes
\* alternate starting with an open, so at most one Position exists.
C1_Alternation ==
    [][ /\ (Evaluated /\ lastDecision' = "Open") => Flat
        /\ (Evaluated /\ lastDecision' = "Close") => Positioned
        /\ currentPosition' # currentPosition =>
              \/ /\ Flat /\ Positioned'
                 /\ Evaluated /\ lastDecision' = "Open"
                 /\ opens' = opens + 1 /\ closes' = closes
              \/ /\ Positioned /\ Flat'
                 /\ Evaluated /\ lastDecision' = "Close"
                 /\ closes' = closes + 1 /\ opens' = opens
        /\ (opens' # opens \/ closes' # closes) =>
              currentPosition' # currentPosition
        /\ opens' \in {closes', closes' + 1}
        /\ Positioned' <=> opens' = closes' + 1 ]_vars

\* C1 witness: an open has been followed by its close
C1_Witness == opens = 1 /\ closes = 1 /\ Flat /\ JustEvaluated

\* C2: an evaluation with the spot ask, the futures bid or the funding rate
\* unknown runs neither open nor close and leaves Position and Portfolio
\* unchanged, with or without a Position.
C2_UnknownNoAction ==
    [][ (/\ Evaluated
         /\ \/ Unknown(spotPrice'.ask)
            \/ Unknown(futuresPrice'.bid)
            \/ Unknown(fundingRate'))
        => /\ lastDecision' = "NoAction"
           /\ currentPosition' = currentPosition
           /\ paperPortfolio' = paperPortfolio ]_vars

\* C2 witness: a poll delivered no futures bid while a Position was open
C2_Witness ==
    /\ JustEvaluated /\ Positioned
    /\ Unknown(futuresPrice.bid) /\ ~Unknown(spotPrice.ask)
    /\ lastDecision = "NoAction"

\* delivered with a value
Known(v) == ~Unknown(v)

\* C3 as stated: with the spot ask, the futures bid and the funding rate
\* known and no Position open, an open runs exactly when basisPercent >
\* openThresholdPercent and the funding rate > fundingRateThresholdPercent.
C3_OpenIffAsStated ==
    [][ (/\ Evaluated /\ Flat
         /\ Known(spotPrice'.ask) /\ Known(futuresPrice'.bid)
         /\ Known(fundingRate'))
        => (lastDecision' = "Open" <=>
              /\ Gt(BasisPercent(spotPrice', futuresPrice'),
                    Int2(OpenThresholdPercent))
              /\ Gt(fundingRate', FundingRateThresholdPercent)) ]_vars

\* C3 amended: the same with the spot ask and the futures bid known and
\* not zero (a zero price is treated as missing); equality at a threshold
\* opens nothing and the fee rates have no part in the decision.
C3_OpenIff ==
    [][ (/\ Evaluated /\ Flat
         /\ Known(spotPrice'.ask) /\ Known(futuresPrice'.bid)
         /\ Known(fundingRate')
         /\ spotPrice'.ask # Int2(0) /\ futuresPrice'.bid # Int2(0))
        => /\ lastDecision' \in {"Open", "NoAction"}
           /\ lastDecision' = "Open" <=>
                 /\ Gt(BasisPercent(spotPrice', futuresPrice'),
                       Int2(OpenThresholdPercent))
                 /\ Gt(fundingRate', FundingRateThresholdPercent)
           /\ lastDecision' = "Open" => Positioned' ]_vars

\* C3 witness: an open ran although the two taker fees exceed the basis
C3_Witness ==
    /\ JustEvaluated /\ lastDecision = "Open" /\ Positioned
    /\ spotPrice.ask = Int2(100)
    /\ Gt(OpenFeePercent(config), BasisPercent(spotPrice, futuresPrice))

\* C4 as stated: while a Position is open, a poll with known prices closes
\* exactly when basisPercent < closeThresholdPercent.
C4_CloseIffAsStated ==
    [][ (/\ Evaluated /\ Positioned
         /\ Known(spotPrice'.ask) /\ Known(futuresPrice'.bid))
        => (lastDecision' = "Close" <=>
              Lt(BasisPercent(spotPrice', futuresPrice'),
                 Int2(CloseThresholdPercent))) ]_vars

\* C4 amended: while a Position is open, a poll closes exactly when the
\* spot ask and the futures bid are known and not zero and basisPercent <
\* closeThresholdPercent, whatever the funding rate and the fee rates; the
\* Position is absent after the close.
C4_CloseIff ==
    [][ (Evaluated /\ Positioned)
        => /\ lastDecision' \in {"Close", "NoAction"}
           /\ lastDecision' = "Close" <=>
                 /\ Known(spotPrice'.ask) /\ Known(futuresPrice'.bid)
                 /\ spotPrice'.ask # Int2(0) /\ futuresPrice'.bid # Int2(0)
                 /\ Lt(BasisPercent(spotPrice', futuresPrice'),
                       Int2(CloseThresholdPercent))
           /\ lastDecision' = "Close" => Flat' ]_vars

\* C4 witness: a close ran while the funding rate was not above its
\* threshold
C4_Witness ==
    /\ JustEvaluated /\ lastDecision = "Close" /\ Flat
    /\ ~Gt(fundingRate, FundingRateThresholdPercent)

\* a step that ran simulateOpenPosition / simulateClosePosition
OpenStep == Evaluated /\ Flat /\ lastDecision' = "Open"

CloseStep == Evaluated /\ Positioned /\ lastDecision' = "Close"

\* a balance read as a number, an absent entry counting as 0
Balance(v) == IF Unknown(v) THEN Int2(0) ELSE v

\* C5: an open with notional N and amount = N / spotAsk takes
\* N + N*spotTaker + amount*futuresBid*futuresTaker from the USDT balance,
\* adds amount to the base balance (created at 0 if absent) and records a
\* Position with that amount, the spot ask and the futures bid.
C5_OpenLedger ==
    [][ OpenStep =>
          LET N == config.tradeAmountUSDT
              amount == Div(N, spotPrice'.ask)
              spotFee == Mul(N, config.fees.spotTaker)
              futuresFee == Mul(Mul(amount, futuresPrice'.bid),
                                config.fees.futuresTaker)
          IN  /\ paperPortfolio'.USDT =
                   Sub(paperPortfolio.USDT, Add(Add(N, spotFee), futuresFee))
              /\ paperPortfolio'.BTC =
                   Add(Balance(paperPortfolio.BTC), amount)
              /\ Positioned'
              /\ currentPosition'.amount = amount
              /\ currentPosition'.entrySpotPrice = spotPrice'.ask
              /\ currentPosition'.entryFuturesPrice = futuresPrice'.bid ]_vars

\* C5 witness: an open ran on a portfolio without a base-currency entry
C5_Witness ==
    /\ JustEvaluated /\ lastDecision = "Open" /\ Positioned
    /\ Unknown(preOpen.BTC) /\ IsFinite(paperPortfolio.BTC)
    /\ Lt(paperPortfolio.USDT, preOpen.USDT)

\* C6: a close of a Position of amount a adds
\* a*spotBid - a*spotBid*spotTaker - a*futuresAsk*futuresTaker to the USDT
\* balance, takes a from the base balance and leaves no Position.
C6_CloseLedger ==
    [][ CloseStep =>
          LET a == currentPosition.amount
              sell == Mul(a, spotPrice'.bid)
          IN  /\ paperPortfolio'.USDT =
                   Add(paperPortfolio.USDT,
                       Sub(Sub(sell, Mul(sell, config.fees.spotTaker)),
                           Mul(Mul(a, futuresPrice'.ask),
                               config.fees.futuresTaker)))
              /\ paperPortfolio'.BTC = Sub(paperPortfolio.BTC, a)
              /\ Flat' ]_vars

\* C6 witness: a close ran at exit prices that differ from the entry prices
C6_Witness ==
    /\ JustEvaluated /\ lastDecision = "Close" /\ Flat /\ report.emitted
    /\ IsFinite(paperPortfolio.USDT)
    /\ report.spotPnL # Int2(0) /\ report.futuresPnL # Int2(0)

\* C7: after a close (here: one with positive entry and exit prices), the
\* USDT balance minus the USDT balance before the matching open is the
\* reported netPnL, and the base balance is back at its value before the
\* open.
C7_PortfolioReflectsPnL ==
    [][ (/\ CloseStep
         /\ Gt(currentPosition.entrySpotPrice, Int2(0))
         /\ Gt(currentPosition.entryFuturesPrice, Int2(0))
         /\ Gt(spotPrice'.bid, Int2(0))
         /\ Gt(futuresPrice'.ask, Int2(0)))
        => /\ report'.emitted
           /\ Sub(paperPortfolio'.USDT, preOpen.USDT) = report'.netPnL
           /\ paperPortfolio'.BTC = Balance(preOpen.BTC) ]_vars

\* C8: a close at exit prices equal to the entry prices reports spotPnL = 0,
\* futuresPnL = 0 and netPnL = -totalFees, totalFees being the two exit
\* fees plus the two fees of the open (N*spotTaker and
\* amount*futuresBid*futuresTaker).
C8_RoundTrip ==
    [][ (/\ CloseStep
         /\ spotPrice'.bid = currentPosition.entrySpotPrice
         /\ futuresPrice'.ask = currentPosition.entryFuturesPrice)
        => LET a == currentPosition.amount
               exitSpotFee == Mul(Mul(a, spotPrice'.bid),
                                  config.fees.spotTaker)
               exitFuturesFee == Mul(Mul(a, futuresPrice'.ask),
                                     config.fees.futuresTaker)
               entrySpotFee == Mul(config.tradeAmountUSDT,
                                   config.fees.spotTaker)
               entryFuturesFee ==
                   Mul(Mul(a, currentPosition.entryFuturesPrice),
                       config.fees.futuresTaker)
           IN  /\ report'.emitted
               /\ report'.spotPnL = Int2(0)
               /\ report'.futuresPnL = Int2(0)
               /\ report'.totalFees =
                     Add(Add(exitSpotFee, exitFuturesFee),
                         Add(entrySpotFee, entryFuturesFee))
               /\ report'.netPnL = Sub(Int2(0), report'.totalFees) ]_vars

\* C8 witness: a close ran at the entry prices and reported a loss
C8_Witness ==
    /\ JustEvaluated /\ lastDecision = "Close" /\ report.emitted
    /\ report.spotPnL = Int2(0) /\ report.futuresPnL = Int2(0)
    /\ Lt(report.netPnL, Int2(0))

\* C9: a Position exists exactly between an open and its close, and while
\* it exists the base balance is non-negative, at least the Position's
\* amount and equal to the base balance before the open plus that amount.
C9_PositionInvariant ==
    /\ Positioned <=> opens = closes + 1
    /\ Positioned =>
          /\ ~Lt(paperPortfolio.BTC, Int2(0))
          /\ ~Lt(paperPortfolio.BTC, currentPosition.amount)
          /\ paperPortfolio.BTC =
                Add(Balance(preOpen.BTC), currentPosition.amount)

\* C10: every recorded Position has amount > 0.
C10_AmountPositive ==
    Positioned => Gt(currentPosition.amount, Int2(0))


\* a step of the funding-rate task: its fetch settles or its timer fires
FundingStep == pc.main = "running" /\ pc'.fund # pc.fund

\* C11: Portfolio balances change only in a step that runs an open or a
\* close; a Position appears only by an open, disappears only by a close
\* and is not modified in between; a poll that ends in NoAction, a failed
\* or incomplete poll and every step of the funding-rate task leave
\* Portfolio and Position as they are.
C11_Frame ==
    [][ /\ (paperPortfolio' # paperPortfolio
            \/ currentPosition' # currentPosition) => OpenStep \/ CloseStep
        /\ (Flat /\ Positioned') => OpenStep
        /\ (Positioned /\ Flat') => CloseStep
        /\ (Positioned /\ Positioned') => currentPosition' = currentPosition
        /\ ((Evaluated /\ lastDecision' = "NoAction")
             \/ (PollStep /\ lastDecision' = "None")
             \/ FundingStep)
            => /\ paperPortfolio' = paperPortfolio
               /\ currentPosition' = currentPosition ]_vars

\* C11 witness: a poll failed while a Position was open, after a
\* funding-rate refresh that came after the open
C11_Witness ==
    /\ Positioned /\ pc.poll = "sleep" /\ lastDecision = "None"
    /\ fundingRate.k = "nan" /\ pc.fund = "timer"


\* C12: the two tasks switch only at their awaits, so every evaluation
\* reads spot and futures quotes written in the same step from one
\* delivered pair of tickers; no funding-rate write falls inside an
\* evaluation and its open or close, and no step of the funding-rate task
\* moves the polling loop or the store's quotes; every Flat->Positioned
\* transition starts from a Flat state with as many closes as opens, so no
\* Flat state is opened twice.
C12_SerializedEvaluation ==
    [][ /\ Evaluated =>
              /\ <<spotPrice', futuresPrice'>> \in Snapshots
              /\ fundingRate' = fundingRate
              /\ pc'.fund = pc.fund
        /\ FundingStep =>
              /\ spotPrice' = spotPrice /\ futuresPrice' = futuresPrice
              /\ pc'.poll = pc.poll /\ lastDecision' = lastDecision
              /\ opens' = opens /\ closes' = closes
        /\ fundingRate' # fundingRate => FundingStep /\ ~PollStep
        /\ (spotPrice' # spotPrice \/ futuresPrice' # futuresPrice)
              => Evaluated
        /\ opens' # opens =>
              /\ Flat /\ Positioned' /\ opens = closes
              /\ opens' = opens + 1 ]_vars

\* C12 witness: an open ran while the funding-rate task was suspended in
\* its fetch
C12_Witness ==
    /\ JustEvaluated /\ lastDecision = "Open" /\ Positioned
    /\ pc.fund = "fetch"


\* C13: a step of the funding-rate task writes at most the funding rate: it
\* leaves the spot and futures quotes, Position and Portfolio unchanged and
\* runs no evaluation, so a Position appears only in a step of the polling
\* loop that evaluated, also when the funding rate has just come to
\* satisfy the open condition.
C13_FundingWritesOnlyRate ==
    [][ /\ FundingStep =>
              /\ spotPrice' = spotPrice /\ futuresPrice' = futuresPrice
              /\ currentPosition' = currentPosition
              /\ paperPortfolio' = paperPortfolio
              /\ lastDecision' = lastDecision /\ report' = report
              /\ config' = config
        /\ (Flat /\ Positioned') => Evaluated /\ ~FundingStep ]_vars

\* C13 witness: a refresh has made the open condition true on the stored
\* quotes and nothing is opened before the next poll
C13_Witness ==
    /\ Flat /\ opens = 0 /\ pc.fund = "timer" /\ pc.poll = "sleep"
    /\ lastDecision = "NoAction"
    /\ ~MissingData(spotPrice, futuresPrice, fundingRate)
    /\ OpenCondition(spotPrice, futuresPrice, fundingRate, config)


\* C14: a failed or incomplete poll runs no evaluation and, like a failed
\* funding-rate fetch, leaves every store field, the Position and the
\* Portfolio unchanged; a funding rate that is no longer null never
\* becomes null again.
C14_FailuresNotPropagated ==
    [][ /\ (PollStep /\ lastDecision' = "None") =>
              /\ spotPrice' = spotPrice /\ futuresPrice' = futuresPrice
              /\ fundingRate' = fundingRate
              /\ currentPosition' = currentPosition
              /\ paperPortfolio' = paperPortfolio
        /\ (PollFail \/ PollIncomplete) => lastDecision' = "None"
        /\ FundingRateFail =>
              /\ spotPrice' = spotPrice /\ futuresPrice' = futuresPrice
              /\ fundingRate' = fundingRate
              /\ currentPosition' = currentPosition
              /\ paperPortfolio' = paperPortfolio
              /\ lastDecision' = lastDecision
        /\ fundingRate.k # "null" => fundingRate'.k # "null" ]_vars

\* C14 witness: after a successful poll and a funding-rate refresh, a poll
\* has failed and the store still holds the earlier values
C14_Witness ==
    /\ pc.poll = "sleep" /\ lastDecision = "None"
    /\ IsFinite(spotPrice.ask) /\ IsFinite(futuresPrice.bid)
    /\ IsFinite(fundingRate) /\ Flat /\ closes = 1


\* C15: once the two loops run they run forever: after a failed or
\* incomplete poll the loop polls again, after a funding-rate fetch has
\* settled, failed or not, the next fetch is started, and neither loop is
\* stopped by what happens in the other.
C15_FeedsRetried ==
    /\ (pc.poll = "sleep" /\ lastDecision = "None") ~> (pc.poll = "fetch")
    /\ (pc.fund = "timer") ~> (pc.fund = "fetch")
    /\ (pc.main = "running") ~> (pc.poll = "fetch")
    /\ (pc.main = "running") ~> (pc.fund = "fetch")

\* C15 witness: both feeds have failed, the store is still empty and both
\* loops wait for their next attempt
C15_Witness ==
    /\ pc.poll = "sleep" /\ lastDecision = "None" /\ pc.fund = "timer"
    /\ fundingRate = Null /\ spotPrice.ask = Null


\* C16: a close requested while no Position is open changes no Portfolio
\* balance and is not absorbed like a failed poll: the polling loop does
\* not carry on to its next poll as if nothing had happened.
C16_CloseWhileFlatFailsLoudly ==
    [][ (PollStep /\ Flat /\ lastDecision' = "Close")
        => /\ paperPortfolio' = paperPortfolio
           /\ ~(pc'.main = "running" /\ pc'.poll = "sleep") ]_vars


\* C17: no configuration value changes: config.paperTrading.initialBalance
\* still holds the balances loaded from config.json, and the fee rates,
\* thresholds and notional are those of the loaded configuration.
C17_ConfigReadOnly ==
    /\ config \in Configs
    /\ ConfigInitialBalance = loadedInitialBalance


\* C19: a step runs at most one open or close, and with
\* closeThresholdPercent <= openThresholdPercent an evaluation on the spot
\* ask and futures bid that triggered the open of the current Position
\* never closes it.
C19_NoChurn ==
    [][ /\ opens' >= opens /\ closes' >= closes
        /\ (opens' - opens) + (closes' - closes) <= 1
        /\ (/\ ~Gt(config.closeThresholdPercent, config.openThresholdPercent)
            /\ Evaluated /\ Positioned
            /\ spotPrice'.ask = currentPosition.entrySpotPrice
            /\ futuresPrice'.bid = currentPosition.entryFuturesPrice)
           => /\ lastDecision' = "NoAction"
              /\ currentPosition' = currentPosition ]_vars

\* C19 witness: the snapshot that opened the Position was evaluated again
\* and the Position is still open
C19_Witness ==
    /\ JustEvaluated /\ Positioned /\ lastDecision = "NoAction"
    /\ spotPrice.ask = currentPosition.entrySpotPrice
    /\ futuresPrice.bid = currentPosition.entryFuturesPrice

\* C20: an open runs only with the spot ask and the futures bid known, a
\* close (here: of a Position entered at positive prices, with numeric
\* balances before it) only with the spot bid and the futures ask known,
\* and it leaves both Portfolio balances numbers.
C20_KnownPricesOnly ==
    [][ /\ OpenStep =>
              Known(spotPrice'.ask) /\ Known(futuresPrice'.bid)
        /\ (/\ CloseStep
            /\ Gt(currentPosition.entrySpotPrice, Int2(0))
            /\ Gt(currentPosition.entryFuturesPrice, Int2(0))
            /\ IsFinite(paperPortfolio.USDT))
           => /\ Known(spotPrice'.bid) /\ Known(futuresPrice'.ask)
              /\ IsFinite(paperPortfolio'.USDT)
              /\ IsFinite(paperPortfolio'.BTC) ]_vars

====
